---- MODULE Spec2Model ----
(***************************************************************************)
(* Model of the forecasting dashboard client (src/App.jsx): the selection  *)
(* state, the item-list fetch, the reload effect with its three loaders,   *)
(* the manual Update Forecast control, the resolution of every request in  *)
(* any order, and the render guards of the view.                           *)
(***************************************************************************)
EXTENDS Integers, Sequences, FiniteSets, TLC

\* ------------------------------------------------------------------ bounds
\* Longest item list the server answers GET /items with.
MaxItems == 2
\* Most forecast / cost-analysis / metrics requests issued in one run.
MaxRequests == 6

\* ------------------------------------------------------- program constants
\* Item identifiers of the API (src/todo.md:69); /items answers a prefix.
AllItems == <<"ITEM001", "ITEM002", "ITEM003", "ITEM004", "ITEM005">>
\* The Forecast Days select options.
HorizonOptions == {30, 60, 90, 180}
\* The Model select options.
ModelOptions == {"prophet", "arima"}
\* useState initial values.
InitialForecastDays == 90
InitialModelType == "prophet"
\* JavaScript null, the initial value of the data slots and of the error slot.
NULL == [null |-> TRUE]
\* The two values written to the error slot besides null (a message string,
\* held in a record so that it compares with NULL).
ItemsErrorMessage == [message |-> "Failed to load items"]
ForecastErrorMessage == [message |-> "Failed to load forecast data"]
\* A dependency list that leaves forecastDays out.
EffectDepsNoDays == {"selectedItem", "modelType"}
\* The dependency list of the reload effect.
EffectDeps == {"selectedItem", "forecastDays", "modelType"}

VARIABLES
    items,          \* useState([])    : the item list
    selectedItem,   \* useState('')    : "" until an item is selected
    forecastData,   \* useState(null)
    costAnalysis,   \* useState(null)
    metrics,        \* useState(null)
    loading,        \* useState(false)
    error,          \* useState(null)
    forecastDays,   \* useState(90)
    modelType,      \* useState('prophet')
    itemsReq,       \* the GET /items call: "pending", "ok" or "fail"
    reqs,           \* every other axios.get issued so far, in issue order,
                    \* each with the state of its promise
    crashed,        \* a render of App threw: React has unmounted the tree
    rendered,       \* what the helpers of the render under study returned
    \* The load harness (the k6 script of src/todo.md and the k6 run executing it).
    endpoint,           \* the answers the API under load can give
    stage,              \* index in options.stages of the stage in progress
    iterations,         \* per virtual user, the iterations of default() run
    response,           \* const response of the latest iteration
    errorRate,          \* new Rate('errors')
    responseTime,       \* new Trend('response_time'), sorted
    http_reqs,          \* k6's counter of HTTP requests
    http_req_failed,    \* k6's rate of failed HTTP requests
    http_req_duration,  \* k6's trend of HTTP request durations, sorted
    checks,             \* k6's tally of check() predicates
    data,               \* the argument of handleSummary
    summary             \* the end-of-run report: thresholds and handleSummary

\* The dashboard's variables.
dashVars == <<items, selectedItem, forecastData, costAnalysis, metrics, loading,
              error, forecastDays, modelType, itemsReq, reqs, crashed, rendered>>

\* The load harness's variables.
loadVars == <<endpoint, stage, iterations, response, errorRate, responseTime,
              http_reqs, http_req_failed, http_req_duration, checks, data,
              summary>>

vars == <<dashVars, loadVars>>

\* The answers GET /items can give: every prefix of AllItems up to MaxItems.
ItemLists == {SubSeq(AllItems, 1, n) : n \in 0..MaxItems}

\* The selection key a closure captures.
Key(item, days, model) == [item |-> item, days |-> days, model |-> model]
CurrentKey == Key(selectedItem, forecastDays, modelType)

\* ------------------------------------------------------------- requests
\* GET /forecast/${selectedItem}?days=${forecastDays}&model=${modelType}
ForecastUrl(k) ==
    [kind |-> "forecast", item |-> k.item, days |-> k.days, model |-> k.model,
     period |-> ""]
\* GET /cost-analysis/${selectedItem}?period=30d
CostUrl(k) ==
    [kind |-> "cost-analysis", item |-> k.item, days |-> 0, model |-> "",
     period |-> "30d"]
\* GET /metrics/${selectedItem}?model=${modelType}
MetricsUrl(k) ==
    [kind |-> "metrics", item |-> k.item, days |-> 0, model |-> k.model,
     period |-> ""]

\* A request in the log: its url, the key of the closure that issued it, what
\* issued it ("effect" or "click"), the number of the issuing run, its state.
Request(url, k, by, batch) ==
    [url |-> url, key |-> k, by |-> by, batch |-> batch, status |-> "pending"]

NextBatch == IF reqs = <<>> THEN 1 ELSE reqs[Len(reqs)].batch + 1

\* response.data of a successful call: the server's answer for that url.
ResponseData(url) == [for |-> url]

Pending(kind) ==
    {i \in 1..Len(reqs) : reqs[i].url.kind = kind /\ reqs[i].status = "pending"}

Resolve(i, status) == [reqs EXCEPT ![i].status = status]

\* --------------------------------------------------------------- loaders
\* A reload effect that leaves loadMetrics() out.
EffectRequestsNoMetrics(k, batch) ==
    << Request(ForecastUrl(k), k, "effect", batch),
       Request(CostUrl(k), k, "effect", batch) >>

\* The requests one run of the reload effect issues: loadForecastData(),
\* loadCostAnalysis(), loadMetrics(), in that order.
EffectRequests(k, batch) ==
    << Request(ForecastUrl(k), k, "effect", batch),
       Request(CostUrl(k), k, "effect", batch),
       Request(MetricsUrl(k), k, "effect", batch) >>

\* A reload effect without its if (selectedItem) guard.
ReloadEffectUnguarded(dep, k) ==
    IF dep \in EffectDeps
    THEN /\ Len(reqs) + 3 <= MaxRequests
         /\ reqs' = reqs \o EffectRequests(k, NextBatch)
         /\ loading' = TRUE
         /\ error' = NULL
    ELSE UNCHANGED <<reqs, loading, error>>

\* The reload effect, run after a render in which dependency dep changed, with
\* the state of that render: if (selectedItem) { the three loaders }.  The
\* synchronous part of loadForecastData sets loading and clears the error.
ReloadEffect(dep, k) ==
    IF dep \in EffectDeps /\ k.item # ""
    THEN /\ Len(reqs) + 3 <= MaxRequests
         /\ reqs' = reqs \o EffectRequests(k, NextBatch)
         /\ loading' = TRUE
         /\ error' = NULL
    ELSE UNCHANGED <<reqs, loading, error>>

\* The state after the first render, but for the forecast and metrics slots.
InitOtherSlots ==
    /\ items = <<>>
    /\ selectedItem = ""
    /\ costAnalysis = NULL
    /\ loading = FALSE
    /\ error = NULL
    /\ forecastDays = InitialForecastDays
    /\ modelType = InitialModelType
    /\ itemsReq = "pending"
    /\ reqs = <<>>
    /\ crashed = FALSE
    /\ rendered = NULL

\* The load harness is a separate process: while the dashboard is studied no
\* load run is in progress.
NoLoadRun ==
    /\ endpoint = NULL
    /\ stage = 0
    /\ iterations = 0
    /\ response = NULL
    /\ errorRate = NULL
    /\ responseTime = <<>>
    /\ http_reqs = 0
    /\ http_req_failed = NULL
    /\ http_req_duration = <<>>
    /\ checks = NULL
    /\ data = NULL
    /\ summary = NULL

Init ==
    /\ InitOtherSlots
    /\ forecastData = NULL
    /\ metrics = NULL
    /\ NoLoadRun

\* fetchItems, try branch: the item list arrives; the first item is selected
\* when there is one, and the reload effect then runs for it.
FetchItemsOk ==
    /\ itemsReq = "pending"
    /\ \E list \in ItemLists :
        /\ items' = list
        /\ itemsReq' = "ok"
        /\ IF Len(list) > 0
           THEN /\ selectedItem' = list[1]
                /\ ReloadEffect("selectedItem",
                                Key(list[1], forecastDays, modelType))
           ELSE UNCHANGED <<selectedItem, reqs, loading, error>>
    /\ UNCHANGED <<forecastData, costAnalysis, metrics, forecastDays, modelType>>

\* fetchItems, catch branch.
FetchItemsFail ==
    /\ itemsReq = "pending"
    /\ itemsReq' = "fail"
    /\ error' = ItemsErrorMessage
    /\ UNCHANGED <<items, selectedItem, forecastData, costAnalysis, metrics,
                   loading, forecastDays, modelType, reqs>>

\* The Item select: onValueChange={setSelectedItem}, one of the listed items.
SetSelectedItem ==
    \E n \in 1..Len(items) :
        /\ items[n] # selectedItem
        /\ selectedItem' = items[n]
        /\ ReloadEffect("selectedItem", Key(items[n], forecastDays, modelType))
        /\ UNCHANGED <<items, forecastData, costAnalysis, metrics, forecastDays,
                       modelType, itemsReq>>

\* The Forecast Days select: setForecastDays(parseInt(value)).
SetForecastDays ==
    \E d \in HorizonOptions :
        /\ d # forecastDays
        /\ forecastDays' = d
        /\ ReloadEffect("forecastDays", Key(selectedItem, d, modelType))
        /\ UNCHANGED <<items, selectedItem, forecastData, costAnalysis, metrics,
                       modelType, itemsReq>>

\* The Model select: onValueChange={setModelType}.
SetModelType ==
    \E m \in ModelOptions :
        /\ m # modelType
        /\ modelType' = m
        /\ ReloadEffect("modelType", Key(selectedItem, forecastDays, m))
        /\ UNCHANGED <<items, selectedItem, forecastData, costAnalysis, metrics,
                       forecastDays, itemsReq>>

\* The Update Forecast button: disabled={loading || !selectedItem},
\* onClick={loadForecastData}.
UpdateForecastDisabled == loading \/ selectedItem = ""

UpdateForecastClick ==
    /\ ~UpdateForecastDisabled
    /\ Len(reqs) + 1 <= MaxRequests
    /\ reqs' = Append(reqs, Request(ForecastUrl(CurrentKey), CurrentKey,
                                    "click", NextBatch))
    /\ loading' = TRUE
    /\ error' = NULL
    /\ UNCHANGED <<items, selectedItem, forecastData, costAnalysis, metrics,
                   forecastDays, modelType, itemsReq>>

\* loadForecastData after its await, try branch then finally.
ForecastOk(i) ==
    /\ reqs' = Resolve(i, "ok")
    /\ forecastData' = ResponseData(reqs[i].url)
    /\ loading' = FALSE
    /\ UNCHANGED <<items, selectedItem, costAnalysis, metrics, error,
                   forecastDays, modelType, itemsReq>>

\* A forecast loader whose catch branch only logs, as the optional loaders do.
ForecastFailSilent(i) ==
    /\ reqs' = Resolve(i, "fail")
    /\ loading' = FALSE
    /\ UNCHANGED <<items, selectedItem, forecastData, costAnalysis, metrics,
                   error, forecastDays, modelType, itemsReq>>

\* A forecast loader that resets the flag in its try branch only.
ForecastFailKeepsLoading(i) ==
    /\ reqs' = Resolve(i, "fail")
    /\ error' = ForecastErrorMessage
    /\ UNCHANGED <<items, selectedItem, forecastData, costAnalysis, metrics,
                   loading, forecastDays, modelType, itemsReq>>

\* loadForecastData after its await, catch branch then finally.
ForecastFail(i) ==
    /\ reqs' = Resolve(i, "fail")
    /\ error' = ForecastErrorMessage
    /\ loading' = FALSE
    /\ UNCHANGED <<items, selectedItem, forecastData, costAnalysis, metrics,
                   forecastDays, modelType, itemsReq>>

\* loadCostAnalysis after its await, try branch.
CostOk(i) ==
    /\ reqs' = Resolve(i, "ok")
    /\ costAnalysis' = ResponseData(reqs[i].url)
    /\ UNCHANGED <<items, selectedItem, forecastData, metrics, loading, error,
                   forecastDays, modelType, itemsReq>>

\* A cost-analysis loader whose catch branch surfaces the failure, as the
\* forecast loader does.
CostFailSurfaces(i) ==
    /\ reqs' = Resolve(i, "fail")
    /\ error' = ForecastErrorMessage
    /\ UNCHANGED <<items, selectedItem, forecastData, costAnalysis, metrics,
                   loading, forecastDays, modelType, itemsReq>>

\* loadCostAnalysis after its await, catch branch: console.error only.
CostFail(i) ==
    /\ reqs' = Resolve(i, "fail")
    /\ UNCHANGED <<items, selectedItem, forecastData, costAnalysis, metrics,
                   loading, error, forecastDays, modelType, itemsReq>>

\* loadMetrics after its await, try branch.
MetricsOk(i) ==
    /\ reqs' = Resolve(i, "ok")
    /\ metrics' = ResponseData(reqs[i].url)
    /\ UNCHANGED <<items, selectedItem, forecastData, costAnalysis, loading,
                   error, forecastDays, modelType, itemsReq>>

\* loadMetrics after its await, catch branch: console.error only.
MetricsFail(i) ==
    /\ reqs' = Resolve(i, "fail")
    /\ UNCHANGED <<items, selectedItem, forecastData, costAnalysis, metrics,
                   loading, error, forecastDays, modelType, itemsReq>>

ForecastResolvesOk == \E i \in Pending("forecast") : ForecastOk(i)
ForecastResolvesFail == \E i \in Pending("forecast") : ForecastFail(i)
CostResolvesOk == \E i \in Pending("cost-analysis") : CostOk(i)
CostResolvesFail == \E i \in Pending("cost-analysis") : CostFail(i)
MetricsResolvesOk == \E i \in Pending("metrics") : MetricsOk(i)
MetricsResolvesFail == \E i \in Pending("metrics") : MetricsFail(i)

\* ------------------------------------------------------- render failures
\* response.data of a call that answered 2xx with a body that is not the
\* expected JSON: axios hands the loader the unparsed text (or the object
\* without the expected fields) and does not throw.
MalformedBody == [malformed |-> TRUE]
\* The items slot after setItems(response.data.items) with such a body: it
\* holds undefined (a one-element marker, so that it compares with lists).
UndefinedItems == << "undefined" >>

\* The render throws a TypeError: items.map(...) on undefined,
\* metrics.demand_metrics.mae on a body without demand_metrics,
\* forecastData.model_type.toUpperCase() on a body without model_type.  The
\* cost cards read costAnalysis.avg_cost and waste_rate * 100, which yield
\* undefined and NaN without throwing.
RenderThrows ==
    \/ items = UndefinedItems
    \/ metrics = MalformedBody
    \/ forecastData = MalformedBody

\* A handler of the mounted component, followed by the re-render of App its
\* state updates cause.  There is no error boundary: a render that throws
\* unmounts the tree, and state updates of an unmounted component are dropped.
Render(Handler) ==
    /\ ~crashed
    /\ Handler
    /\ crashed' = RenderThrows'
    /\ UNCHANGED rendered
    /\ UNCHANGED loadVars

Next ==
    \/ Render(FetchItemsOk)
    \/ Render(FetchItemsFail)
    \/ Render(SetSelectedItem)
    \/ Render(SetForecastDays)
    \/ Render(SetModelType)
    \/ Render(UpdateForecastClick)
    \/ Render(ForecastResolvesOk)
    \/ Render(ForecastResolvesFail)
    \/ Render(CostResolvesOk)
    \/ Render(CostResolvesFail)
    \/ Render(MetricsResolvesOk)
    \/ Render(MetricsResolvesFail)

Spec == Init /\ [][Next]_vars

\* ------------------------------------------- responses with a malformed body
\* fetchItems when /items answers 2xx with a malformed body: setItems(undefined)
\* runs, then response.data.items.length throws inside the try and the catch
\* branch sets the error.
FetchItemsMalformed ==
    /\ itemsReq = "pending"
    /\ itemsReq' = "malformed"
    /\ items' = UndefinedItems
    /\ error' = ItemsErrorMessage
    /\ UNCHANGED <<selectedItem, forecastData, costAnalysis, metrics, loading,
                   forecastDays, modelType, reqs>>

\* loadForecastData when the call answers 2xx with a malformed body: the try
\* branch commits it, nothing throws, finally clears the loading flag.
ForecastMalformed(i) ==
    /\ reqs' = Resolve(i, "malformed")
    /\ forecastData' = MalformedBody
    /\ loading' = FALSE
    /\ UNCHANGED <<items, selectedItem, costAnalysis, metrics, error,
                   forecastDays, modelType, itemsReq>>

\* loadCostAnalysis when the call answers 2xx with a malformed body.
CostMalformed(i) ==
    /\ reqs' = Resolve(i, "malformed")
    /\ costAnalysis' = MalformedBody
    /\ UNCHANGED <<items, selectedItem, forecastData, metrics, loading, error,
                   forecastDays, modelType, itemsReq>>

\* loadMetrics when the call answers 2xx with a malformed body.
MetricsMalformed(i) ==
    /\ reqs' = Resolve(i, "malformed")
    /\ metrics' = MalformedBody
    /\ UNCHANGED <<items, selectedItem, forecastData, costAnalysis, loading,
                   error, forecastDays, modelType, itemsReq>>

ForecastResolvesMalformed == \E i \in Pending("forecast") : ForecastMalformed(i)
CostResolvesMalformed == \E i \in Pending("cost-analysis") : CostMalformed(i)
MetricsResolvesMalformed == \E i \in Pending("metrics") : MetricsMalformed(i)

\* The dashboard with every outcome of every call: success, failure (network
\* error or non-2xx status, which axios throws) and a 2xx answer with a
\* malformed body.  The selection stays the one made when the item list loads.
NextBodies ==
    \/ Render(FetchItemsOk)
    \/ Render(FetchItemsFail)
    \/ Render(FetchItemsMalformed)
    \/ Render(UpdateForecastClick)
    \/ Render(ForecastResolvesOk)
    \/ Render(ForecastResolvesFail)
    \/ Render(ForecastResolvesMalformed)
    \/ Render(CostResolvesOk)
    \/ Render(CostResolvesFail)
    \/ Render(CostResolvesMalformed)
    \/ Render(MetricsResolvesOk)
    \/ Render(MetricsResolvesFail)
    \/ Render(MetricsResolvesMalformed)

SpecBodies == Init /\ [][NextBodies]_vars

\* ------------------------------------------------------------ the render
\* {error && ( ... )}
ErrorShown == error # NULL
\* {metrics && ( ... )}
MetricsCardsShown == metrics # NULL
\* {costAnalysis && ( ... )} nested in the metrics block.
CostCardsShown == MetricsCardsShown /\ costAnalysis # NULL
\* {forecastData && ( ... )}: the two charts, and the model information card.
ChartsShown == forecastData # NULL
ModelInformationShown == forecastData # NULL

\* ------------------------------------------------- accuracy badge classifier
\* Largest mean absolute error drawn, in hundredths.
MaxMae == 1100

\* The badge, as its tier and colour class.  Errors are fixed-point numbers in
\* hundredths, so the thresholds 5 and 10 read 500 and 1000.
Badge(tier, className) == [tier |-> tier, className |-> className]

\* A classifier whose first comparison is strict.
getAccuracyBadgeStrict(mae) ==
    IF mae < 500 THEN Badge("Excellent", "bg-green-500")
    ELSE IF mae <= 1000 THEN Badge("Good", "bg-yellow-500")
    ELSE Badge("Needs Improvement", "bg-red-500")

getAccuracyBadge(mae) ==
    IF mae <= 500 THEN Badge("Excellent", "bg-green-500")
    ELSE IF mae <= 1000 THEN Badge("Good", "bg-yellow-500")
    ELSE Badge("Needs Improvement", "bg-red-500")

\* The /metrics answers drawn: every demand error up to MaxMae with a price
\* error at or next to a threshold.
MetricsBodies ==
    {[demand_metrics |-> [mae |-> d], price_metrics |-> [mae |-> p]] :
        d \in 0..MaxMae, p \in {0, 500, 501, 1000, 1001}}

InitBadge ==
    /\ InitOtherSlots
    /\ forecastData = NULL
    /\ metrics \in MetricsBodies
    /\ NoLoadRun

\* The metrics cards of one render: {metrics && ...} with its two badges.
RenderMetricsCards ==
    /\ rendered = NULL
    /\ MetricsCardsShown
    /\ rendered' = [demandBadge |-> getAccuracyBadge(metrics.demand_metrics.mae),
                    priceBadge |-> getAccuracyBadge(metrics.price_metrics.mae)]
    /\ UNCHANGED <<items, selectedItem, forecastData, costAnalysis, metrics,
                   loading, error, forecastDays, modelType, itemsReq, reqs,
                   crashed>>
    /\ UNCHANGED loadVars

NextBadge == RenderMetricsCards

SpecBadge == InitBadge /\ [][NextBadge]_vars

\* ------------------------------------------------------- series builder
\* Longest forecast point sequence drawn.
MaxPoints == 3

\* JavaScript undefined, what reading a missing field yields.
UNDEFINED == [undefined |-> TRUE]
Get(f, name) == IF name \in DOMAIN f THEN f[name] ELSE UNDEFINED
\* array.map(fn)
Map(fn(_), array) == [i \in 1..Len(array) |-> fn(array[i])]

\* A forecast point of the API: the six measures differ from one another, so
\* that a trace built from the wrong field shows.
Point(date, base) ==
    [date |-> date,
     demand_forecast |-> base, demand_lower |-> base - 1,
     demand_upper |-> base + 1,
     price_forecast |-> 10 * base, price_lower |-> 10 * base - 1,
     price_upper |-> 10 * base + 1]
\* The points drawn: complete ones, and ones that carry a date only.
Points ==
    {Point(d, b) : d \in {"2024-01-01", "2024-01-02"}, b \in {10, 20}}
        \cup {[date |-> d] : d \in {"2024-01-01", "2024-01-02"}}
\* The /forecast answers drawn: with every point sequence up to MaxPoints
\* (in any order of dates), and one without the forecasts list.
ForecastBodies ==
    {[model_type |-> "prophet", forecast_days |-> 90, forecasts |-> pts] :
        pts \in UNION {[1..n -> Points] : n \in 0..MaxPoints}}
        \cup {[model_type |-> "prophet", forecast_days |-> 90]}

\* One Plotly trace of a chart.
Trace(x, y, name, dash, showlegend, fill) ==
    [x |-> x, y |-> y, type |-> "scatter", mode |-> "lines", name |-> name,
     dash |-> dash, showlegend |-> showlegend, fill |-> fill]

DateOf(f) == Get(f, "date")
DemandForecastOf(f) == Get(f, "demand_forecast")
DemandLowerOf(f) == Get(f, "demand_lower")
DemandUpperOf(f) == Get(f, "demand_upper")
PriceForecastOf(f) == Get(f, "price_forecast")
PriceLowerOf(f) == Get(f, "price_lower")
PriceUpperOf(f) == Get(f, "price_upper")

\* A demand chart whose value sequences leave the first point out.
createForecastChartSkipsFirst ==
    IF forecastData = NULL \/ "forecasts" \notin DOMAIN forecastData
    THEN NULL
    ELSE LET rest == SubSeq(forecastData.forecasts, 2,
                            Len(forecastData.forecasts))
             dates == Map(DateOf, forecastData.forecasts)
         IN  [data |-> << Trace(dates, Map(DemandForecastOf, rest),
                                "Demand Forecast", "solid", TRUE, "none"),
                          Trace(dates, Map(DemandUpperOf, rest),
                                "Upper Bound", "dot", FALSE, "none"),
                          Trace(dates, Map(DemandLowerOf, rest),
                                "Lower Bound", "dot", FALSE, "tonexty") >>,
              layout |-> [title |-> <<"Demand Forecast - ", selectedItem>>,
                          xaxis |-> "Date", yaxis |-> "Demand"]]

createForecastChart ==
    IF forecastData = NULL \/ "forecasts" \notin DOMAIN forecastData
    THEN NULL
    ELSE LET dates == Map(DateOf, forecastData.forecasts)
             demandForecast == Map(DemandForecastOf, forecastData.forecasts)
             demandLower == Map(DemandLowerOf, forecastData.forecasts)
             demandUpper == Map(DemandUpperOf, forecastData.forecasts)
         IN  [data |-> << Trace(dates, demandForecast,
                                "Demand Forecast", "solid", TRUE, "none"),
                          Trace(dates, demandUpper,
                                "Upper Bound", "dot", FALSE, "none"),
                          Trace(dates, demandLower,
                                "Lower Bound", "dot", FALSE, "tonexty") >>,
              layout |-> [title |-> <<"Demand Forecast - ", selectedItem>>,
                          xaxis |-> "Date", yaxis |-> "Demand"]]

createPriceChart ==
    IF forecastData = NULL \/ "forecasts" \notin DOMAIN forecastData
    THEN NULL
    ELSE LET dates == Map(DateOf, forecastData.forecasts)
             priceForecast == Map(PriceForecastOf, forecastData.forecasts)
             priceLower == Map(PriceLowerOf, forecastData.forecasts)
             priceUpper == Map(PriceUpperOf, forecastData.forecasts)
         IN  [data |-> << Trace(dates, priceForecast,
                                "Price Forecast", "solid", TRUE, "none"),
                          Trace(dates, priceUpper,
                                "Upper Bound", "dot", FALSE, "none"),
                          Trace(dates, priceLower,
                                "Lower Bound", "dot", FALSE, "tonexty") >>,
              layout |-> [title |-> <<"Price Forecast - ", selectedItem>>,
                          xaxis |-> "Date", yaxis |-> "Price ($)"]]

InitChart ==
    /\ InitOtherSlots
    /\ forecastData \in ForecastBodies
    /\ metrics = NULL
    /\ NoLoadRun

\* The charts block of one render: {forecastData && ...} with its two plots.
RenderCharts ==
    /\ rendered = NULL
    /\ ChartsShown
    /\ rendered' = [demand |-> createForecastChart, price |-> createPriceChart]
    /\ UNCHANGED <<items, selectedItem, forecastData, costAnalysis, metrics,
                   loading, error, forecastDays, modelType, itemsReq, reqs,
                   crashed>>
    /\ UNCHANGED loadVars

NextChart == RenderCharts

SpecChart == InitChart /\ [][NextChart]_vars

\* ------------------------------------------------------- the load harness
\* The k6 script of src/todo.md.  Virtual users share nothing but the metrics;
\* each one runs default() in a loop while the stages last, and every call of
\* default() is one Iteration.

\* Most iterations of default() in one run, over all virtual users.
MaxIterations == 2

\* options.stages: duration in seconds and target number of virtual users.
Stages == << [duration |-> 30,  target |-> 100],
             [duration |-> 60,  target |-> 500],
             [duration |-> 120, target |-> 1000],
             [duration |-> 120, target |-> 1000],
             [duration |-> 30,  target |-> 0] >>

\* thresholds: {..., ['p(95)<300'], ['rate<0.1'], ['rate<0.1']}: plain
\* expressions, so none carries abortOnFail.
AbortOnFailTrue == TRUE
AbortOnFail == FALSE

\* What GET /forecast/... can carry in its body.
\*   "forecasts"  : { forecasts: [p, ...], mae_demand: n, mae_price: n }
\*   "maeNull"    : { forecasts: [p, ...], mae_demand: null, mae_price: n }
\*   "empty"      : { forecasts: [], mae_demand: n, mae_price: n }
\*   "unparsable" : not JSON, or no body at all
Bodies == {"forecasts", "maeNull", "empty", "unparsable"}

\* The APIs a run can be pointed at: the statuses it answers with (0 is k6's
\* status for a request without a response), the bodies of its 200 answers,
\* and the durations of its answers in milliseconds.  An
\* API's answers vary in at most one of the three.
Endpoints ==
    { e \in [statuses  : {{200}, {200, 500, 0}},
             bodies    : {{"forecasts"}, Bodies},
             latencies : {{100}, {300}, {400}, {100, 400}}] :
        Cardinality({f \in DOMAIN e : Cardinality(e[f]) > 1}) <= 1 }

\* The responses http.get() can return for the primary request.
Responses(e) ==
    { r \in [status : e.statuses, latency : e.latencies, body : Bodies] :
        IF r.status = 200 THEN r.body \in e.bodies
                          ELSE r.body = "unparsable" }

\* A probe is issued or not (Math.random() < p) and, if issued, answered.
NotIssued == [issued |-> FALSE]
ProbeOutcomes(e) ==
    {NotIssued} \cup
    [issued : {TRUE}, status : e.statuses, latency : e.latencies]

\* Rate.add(v): one more sample, non-zero ones counted.
RateAdd(rate, v) ==
    [total |-> rate.total + 1,
     nonzero |-> rate.nonzero + (IF v # 0 THEN 1 ELSE 0)]

\* Trend.add(v); the samples are kept sorted, as the percentile needs them.
TrendAdd(trend, v) ==
    LET k == Cardinality({i \in 1..Len(trend) : trend[i] <= v})
    IN  SubSeq(trend, 1, k) \o <<v>> \o SubSeq(trend, k + 1, Len(trend))

\* The four predicates of check(response, {...}).
StatusIs200(r) == r.status = 200
ResponseTimeBelow300(r) == r.latency < 300
ResponseHasForecasts(r) == r.body \in {"forecasts", "maeNull"}
MaeIsReasonable(r) == r.body \in {"forecasts", "empty"}
PrimaryChecks(r) ==
    << StatusIs200(r), ResponseTimeBelow300(r),
       ResponseHasForecasts(r), MaeIsReasonable(r) >>

\* check(): TRUE iff every predicate passed.
Check(passed) == \A i \in 1..Len(passed) : passed[i]

\* The checks metric after a call of check().
ChecksAdd(tally, passed) ==
    [passes |-> tally.passes + Cardinality({i \in 1..Len(passed) : passed[i]}),
     fails  |-> tally.fails + Cardinality({i \in 1..Len(passed) : ~passed[i]})]

\* k6 marks an HTTP request failed unless its status is in 200..399.
HttpFailed(r) == ~(r.status >= 200 /\ r.status <= 399)

RECURSIVE RateAddAll(_, _)
RateAddAll(rate, vs) ==
    IF vs = <<>> THEN rate ELSE RateAddAll(RateAdd(rate, Head(vs)), Tail(vs))

RECURSIVE TrendAddAll(_, _)
TrendAddAll(trend, vs) ==
    IF vs = <<>> THEN trend
    ELSE TrendAddAll(TrendAdd(trend, Head(vs)), Tail(vs))

RECURSIVE ChecksAddAll(_, _)
ChecksAddAll(tally, calls) ==
    IF calls = <<>> THEN tally
    ELSE ChecksAddAll(ChecksAdd(tally, Head(calls)), Tail(calls))

\* Map over a sequence of responses.
Each(fn(_), rs) == [i \in 1..Len(rs) |-> fn(rs[i])]
FailedSample(r) == IF HttpFailed(r) THEN 1 ELSE 0
DurationSample(r) == r.latency
ProbeCheck(r) == << StatusIs200(r) >>
WasIssued(p) == p.issued

\* A harness that tallied the probes' failures with the primary's.
ErrorsAddedWithProbes(success, probes) ==
    << IF success THEN 0 ELSE 1 >> \o Each(FailedSample, probes)
\* What one iteration adds to the custom rate 'errors': one sample, for the
\* primary request; the probes' responses are checked and dropped.
ErrorsAdded(success, probes) == << IF success THEN 0 ELSE 1 >>

\* One call of default(): the primary request, its check and tally, the three
\* occasional probes, then sleep(0.1).  The item, model and horizon drawn at
\* random only choose the URL; the endpoint's answer does not depend on them.
Iteration ==
    /\ stage \in 1..Len(Stages)
    /\ summary = NULL
    /\ iterations < MaxIterations
    /\ \E r \in Responses(endpoint) :
       \E m \in ProbeOutcomes(endpoint) :
       \E c \in ProbeOutcomes(endpoint) :
       \E h \in ProbeOutcomes(endpoint) :
          LET probes == SelectSeq(<<m, c, h>>, WasIssued)
              sent == <<r>> \o probes
              success == Check(PrimaryChecks(r))
          IN  /\ response' = r
              /\ responseTime' = TrendAdd(responseTime, r.latency)
              /\ errorRate' = RateAddAll(errorRate, ErrorsAdded(success, probes))
              /\ checks' = ChecksAddAll(checks, <<PrimaryChecks(r)>>
                                                \o Each(ProbeCheck, probes))
              /\ http_reqs' = http_reqs + Len(sent)
              /\ http_req_failed' =
                     RateAddAll(http_req_failed, Each(FailedSample, sent))
              /\ http_req_duration' =
                     TrendAddAll(http_req_duration, Each(DurationSample, sent))
    /\ iterations' = iterations + 1
    /\ UNCHANGED <<endpoint, stage, data, summary>>
    /\ UNCHANGED dashVars

\* Trend percentile, in hundredths of a millisecond: linear interpolation
\* between the two samples around index pct/100 * (n - 1); 0 without samples.
P(trend, pct) ==
    LET n == Len(trend)
        i == pct * (n - 1)
        lo == i \div 100
        f == i % 100
        hi == IF f = 0 THEN lo ELSE lo + 1
    IN  IF n = 0 THEN 0
        ELSE 100 * trend[lo + 1] + (trend[hi + 1] - trend[lo + 1]) * f

\* rate < 0.1, the rate of a Rate without samples being 0.
RateBelowTenth(rate) == rate.total = 0 \/ 10 * rate.nonzero < rate.total

\* options.thresholds, evaluated on the metrics as they stand.
Thresholds ==
    [http_req_duration |-> P(http_req_duration, 95) < 300 * 100,
     http_req_failed   |-> RateBelowTenth(http_req_failed),
     errors            |-> RateBelowTenth(errorRate)]
Breached ==
    \E name \in DOMAIN Thresholds : ~Thresholds[name]

\* Seconds of the first n stages.
RECURSIVE Elapsed(_)
Elapsed(n) == IF n = 0 THEN 0 ELSE Elapsed(n - 1) + Stages[n].duration

\* (rate * 100).toFixed(2), in hundredths of a percent.
PercentFixed2(rate) ==
    IF rate.total = 0 THEN 0
    ELSE (2 * 10000 * rate.nonzero + rate.total) \div (2 * rate.total)

\* A verdict for which one of the two conditions is enough.
VerdictEither(p95, failed) ==
    IF p95 < 300 * 100 \/ RateBelowTenth(failed) THEN "PASSED" ELSE "FAILED"
\* The overall verdict line of handleSummary.
Verdict(p95, failed) ==
    IF p95 < 300 * 100 /\ RateBelowTenth(failed) THEN "PASSED" ELSE "FAILED"

\* values[name] || 0: a value that is missing counts as 0.
OrZero(values, name) == IF name \in DOMAIN values THEN values[name] ELSE 0
\* rate * 100 || 0 < 10, where a missing rate gives NaN || 0.
PercentBelowTen(values) ==
    "http_req_failed" \in DOMAIN values => RateBelowTenth(values.http_req_failed)

\* handleSummary(data).stdout, the lines read here: Duration, Requests,
\* Failed Requests, p95, the two threshold lines and the verdict.  The lines
\* default a missing value to 0; the verdict compares the values as they are,
\* and a comparison with undefined is false.
handleSummary(d) ==
    [duration  |-> d.state.testRunDurationMs,
     requests  |-> d.metrics.http_reqs,
     failed    |-> IF "http_req_failed" \in DOMAIN d.metrics
                   THEN PercentFixed2(d.metrics.http_req_failed) ELSE 0,
     p95       |-> OrZero(d.metrics, "p95"),
     p95Line   |-> IF OrZero(d.metrics, "p95") < 300 * 100
                   THEN "PASS" ELSE "FAIL",
     errorLine |-> IF PercentBelowTen(d.metrics) THEN "PASS" ELSE "FAIL",
     verdict   |-> IF {"p95", "http_req_failed"} \subseteq DOMAIN d.metrics
                   THEN Verdict(d.metrics.p95, d.metrics.http_req_failed)
                   ELSE "FAILED"]

\* The data k6 hands to handleSummary after stages 1..n.
SummaryData(n) ==
    [state   |-> [testRunDurationMs |-> 1000 * Elapsed(n)],
     metrics |-> [http_reqs |-> http_reqs,
                  http_req_failed |-> http_req_failed,
                  p95 |-> P(http_req_duration, 95)]]

\* The end of the run: the thresholds get their final evaluation and
\* handleSummary is called.
Finalize ==
    /\ stage' = Len(Stages) + 1
    /\ data' = SummaryData(stage)
    /\ summary' = [thresholds |-> Thresholds,
                   stdout |-> handleSummary(SummaryData(stage))]

\* A stage but the last has lasted its duration.  The thresholds are
\* evaluated all along the run; only one with abortOnFail would stop it.
StageEnds ==
    /\ stage \in 1..(Len(Stages) - 1)
    /\ summary = NULL
    /\ IF AbortOnFail /\ Breached
       THEN Finalize
       ELSE stage' = stage + 1 /\ UNCHANGED <<data, summary>>
    /\ UNCHANGED <<endpoint, iterations, response, errorRate, responseTime,
                   http_reqs, http_req_failed, http_req_duration, checks>>
    /\ UNCHANGED dashVars

\* The last stage has lasted its duration: the schedule is exhausted.
RunEnds ==
    /\ stage = Len(Stages)
    /\ summary = NULL
    /\ Finalize
    /\ UNCHANGED <<endpoint, iterations, response, errorRate, responseTime,
                   http_reqs, http_req_failed, http_req_duration, checks>>
    /\ UNCHANGED dashVars

\* A run starts in its first stage with empty metrics, against some API.
InitLoad ==
    /\ InitOtherSlots
    /\ forecastData = NULL
    /\ metrics = NULL
    /\ endpoint \in Endpoints
    /\ stage = 1
    /\ iterations = 0
    /\ response = NULL
    /\ errorRate = [total |-> 0, nonzero |-> 0]
    /\ responseTime = <<>>
    /\ http_reqs = 0
    /\ http_req_failed = [total |-> 0, nonzero |-> 0]
    /\ http_req_duration = <<>>
    /\ checks = [passes |-> 0, fails |-> 0]
    /\ data = NULL
    /\ summary = NULL

NextLoad ==
    \/ Iteration
    \/ StageEnds
    \/ RunEnds

SpecLoad == InitLoad /\ [][NextLoad]_vars

\* Each stage lasts a finite time, whatever the virtual users do.
SpecLoadTimed ==
    /\ SpecLoad
    /\ WF_vars(StageEnds)
    /\ WF_vars(RunEnds)

\* ------------------------------------------------------ the summary alone
\* handleSummary as a function of the record k6 hands it.

\* Most samples of the failed-request rate in such a record.
MaxSamples == 10

\* The failed-request rates and the 95th percentiles (hundredths of a
\* millisecond) a record can hold.
SummaryRates ==
    { [total |-> t, nonzero |-> n] : t \in 0..MaxSamples, n \in 0..MaxSamples }
SummaryP95s == {0, 100 * 100, 300 * 100 - 1, 300 * 100, 400 * 100}

\* The metrics of a record: both values present, or the percentile, the rate
\* or both missing from them.
SummaryMetrics ==
    LET rates == {r \in SummaryRates : r.nonzero <= r.total}
    IN  { [http_reqs |-> r.total, http_req_failed |-> r, p95 |-> p] :
              r \in rates, p \in SummaryP95s }
        \cup { [http_reqs |-> r.total, http_req_failed |-> r] : r \in rates }
        \cup { [http_reqs |-> 0, p95 |-> p] : p \in SummaryP95s }
        \cup { [http_reqs |-> 0] }

SummaryRecords ==
    { [state |-> [testRunDurationMs |-> 1000 * Elapsed(Len(Stages))],
       metrics |-> mt] : mt \in SummaryMetrics }

InitSummary ==
    /\ InitOtherSlots
    /\ forecastData = NULL
    /\ metrics = NULL
    /\ endpoint = NULL
    /\ stage = 0
    /\ iterations = 0
    /\ response = NULL
    /\ errorRate = NULL
    /\ responseTime = <<>>
    /\ http_reqs = 0
    /\ http_req_failed = NULL
    /\ http_req_duration = <<>>
    /\ checks = NULL
    /\ data \in SummaryRecords
    /\ summary = NULL

\* k6 calls handleSummary(data) and prints what it returns as stdout.
Summarize ==
    /\ summary = NULL
    /\ summary' = [stdout |-> handleSummary(data)]
    /\ UNCHANGED <<endpoint, stage, iterations, response, errorRate,
                   responseTime, http_reqs, http_req_failed, http_req_duration,
                   checks, data>>
    /\ UNCHANGED dashVars

NextSummary == Summarize

SpecSummary == InitSummary /\ [][NextSummary]_vars

\* ------------------------------------------------- vocabulary of the claims
\* The requests the step under consideration issues (an action-level value).
Issued == SubSeq(reqs', Len(reqs) + 1, Len(reqs'))
\* Request i's promise settles in this step, successfully / either way.
ResolvesOk(i) == reqs[i].status = "pending" /\ reqs'[i].status = "ok"
Settles(i) == reqs[i].status = "pending" /\ reqs'[i].status # "pending"
\* No request is in flight.
AllResolved == \A i \in 1..Len(reqs) : reqs[i].status # "pending"
\* The indexes of the requests of one kind, and the latest of them.
OfKind(kind) == {i \in 1..Len(reqs) : reqs[i].url.kind = kind}
IsLatest(i) == \A j \in OfKind(reqs[i].url.kind) : j <= i
\* The last three requests are one run of the reload effect (no newer reload
\* and no newer click), with the given outcomes.
LatestCycleIs(f, c, m) ==
    /\ Len(reqs) >= 3
    /\ reqs[Len(reqs)].by = "effect"
    /\ reqs[Len(reqs) - 2].status = f
    /\ reqs[Len(reqs) - 1].status = c
    /\ reqs[Len(reqs)].status = m

\* --------------------------------------------------------------------- C1
\* C1: a forecast, cost-analysis or metrics response requested for a selection
\* key that has since been superseded is never written into the view state:
\* whenever a request resolves successfully (its loader writes its slot), the
\* key it was requested for is the current selection key.
C1_StaleResponseNeverCommitted ==
    [][\A i \in 1..Len(reqs) : ResolvesOk(i) => reqs[i].key = CurrentKey]_vars

\* --------------------------------------------------------------------- C2
\* C2: once every request has resolved, and the three requests of the latest
\* reload succeeded, the view state holds the data obtained for the current
\* (last requested) key, whatever the arrival order was.
C2_LastKeyWins ==
    (AllResolved /\ LatestCycleIs("ok", "ok", "ok")) =>
        /\ forecastData = ResponseData(ForecastUrl(CurrentKey))
        /\ costAnalysis = ResponseData(CostUrl(CurrentKey))
        /\ metrics = ResponseData(MetricsUrl(CurrentKey))

\* --------------------------------------------------------------------- C3
\* C3: when the latest refresh cycle ended with its forecast call failed and
\* its cost-analysis and metrics calls succeeded, the error slot is set and
\* costAnalysis and metrics are populated, in every order of arrival (earlier
\* requests may still be in flight or have resolved in any way).
C3_ForecastFailsOptionalsSucceed ==
    LatestCycleIs("fail", "ok", "ok") =>
        error # NULL /\ costAnalysis # NULL /\ metrics # NULL

\* C3 witness: such a cycle, reached after an earlier cycle, with its error.
C3_Witness ==
    /\ LatestCycleIs("fail", "ok", "ok")
    /\ Len(reqs) = 6
    /\ error = ForecastErrorMessage

\* --------------------------------------------------------------------- C4
\* C4: when the forecast call of the latest refresh fails, the error is set
\* and the forecast-derived charts and model information are not rendered,
\* also when a forecast of an earlier cycle is held.
C4_ForecastFailureHidesCharts ==
    [][\A i \in OfKind("forecast") :
          (Settles(i) /\ reqs'[i].status = "fail" /\ IsLatest(i)) =>
              error' # NULL /\ forecastData' = NULL]_vars

\* --------------------------------------------------------------------- C5
\* C5: a cost-analysis or metrics call that settles leaves the error slot, the
\* loading flag, the forecast data and the other optional slot unchanged, and
\* when it fails it leaves its own slot unchanged too.
C5_OptionalLoadersFrame ==
    [][\A i \in 1..Len(reqs) :
          /\ (reqs[i].url.kind = "cost-analysis" /\ Settles(i)) =>
                /\ UNCHANGED <<error, loading, forecastData, metrics>>
                /\ reqs'[i].status = "fail" => UNCHANGED costAnalysis
          /\ (reqs[i].url.kind = "metrics" /\ Settles(i)) =>
                /\ UNCHANGED <<error, loading, forecastData, costAnalysis>>
                /\ reqs'[i].status = "fail" => UNCHANGED metrics]_vars

\* C5 witness: optional calls have failed and succeeded while a forecast call
\* is still in flight, the loading flag is up and data of both kinds is held.
C5_Witness ==
    /\ \E i \in OfKind("cost-analysis") : reqs[i].status = "fail"
    /\ \E i \in OfKind("cost-analysis") : reqs[i].status = "ok"
    /\ \E i \in OfKind("metrics") : reqs[i].status = "fail"
    /\ \E i \in OfKind("metrics") : reqs[i].status = "ok"
    /\ loading /\ error = NULL
    /\ costAnalysis # NULL /\ metrics # NULL

\* --------------------------------------------------------------------- C6
\* C6: when the cost-analysis call (respectively the metrics call) of the
\* latest refresh fails, the cost-analysis cards (respectively the metrics
\* cards) are not displayed, also when an earlier cycle had populated them.
C6_FailedOptionalSectionOmitted ==
    [][\A i \in 1..Len(reqs) :
          (Settles(i) /\ reqs'[i].status = "fail" /\ IsLatest(i)) =>
              /\ reqs[i].url.kind = "cost-analysis" => ~CostCardsShown'
              /\ reqs[i].url.kind = "metrics" => ~MetricsCardsShown']_vars

\* --------------------------------------------------------------------- C7
\* C7: in every reachable state the loading flag is true exactly when some
\* forecast call has been issued and has not resolved yet.
C7_LoadingIffForecastInFlight == loading <=> (Pending("forecast") # {})

\* --------------------------------------------------------------------- C8
\* The urls of a sequence of requests, and the three urls a reload for the
\* selection in force after the step has to request.
Urls(s) == [j \in 1..Len(s) |-> s[j].url]
ReloadUrlsAfter ==
    << [kind |-> "forecast", item |-> selectedItem', days |-> forecastDays',
        model |-> modelType', period |-> ""],
       [kind |-> "cost-analysis", item |-> selectedItem', days |-> 0,
        model |-> "", period |-> "30d"],
       [kind |-> "metrics", item |-> selectedItem', days |-> 0,
        model |-> modelType', period |-> ""] >>

\* C8 as stated: every step that issues requests, whatever triggers it (the
\* Update Forecast control included), issues exactly the three requests of
\* the selection key: forecast (item, days, model), cost analysis (item,
\* period 30d), metrics (item, model).
C8_EveryTriggerIssuesThree ==
    [][Issued # <<>> => Urls(Issued) = ReloadUrlsAfter]_vars

\* C8 as amended: a reload triggered by a change of the selection key (the
\* selection of the first item when the item list loads included) issues
\* exactly those three requests; the Update Forecast control, which leaves
\* the key as it is, issues the forecast request for that key alone.
C8_ReloadIssuesThreeClickOne ==
    [][Issued # <<>> =>
          IF CurrentKey' # CurrentKey
          THEN Urls(Issued) = ReloadUrlsAfter
          ELSE Urls(Issued) = << ReloadUrlsAfter[1] >>]_vars

\* C8 witness: a reload and a click have both issued their requests.
C8_Witness ==
    /\ \E i \in 1..Len(reqs) : reqs[i].by = "effect"
    /\ \E i \in 1..Len(reqs) : reqs[i].by = "click"

\* --------------------------------------------------------------------- C9
\* The step issues one reload, for the key in force after it.
ReloadedForKeyAfter ==
    /\ Len(Issued) = 3
    /\ \A j \in 1..Len(Issued) :
          Issued[j].key = CurrentKey' /\ Issued[j].status = "pending"
    /\ Urls(Issued) = ReloadUrlsAfter

\* C9: when the item list loads non-empty its first item is selected and a
\* reload is issued, and every step that changes item, horizon or model while
\* an item is selected issues one reload in that same step (no debouncing),
\* for the key in force after the change.
C9_EveryChangeReloads ==
    [][/\ (itemsReq = "pending" /\ itemsReq' = "ok" /\ items' # <<>>) =>
              selectedItem' = items'[1] /\ ReloadedForKeyAfter
       /\ (selectedItem # "" /\ CurrentKey' # CurrentKey) =>
              ReloadedForKeyAfter]_vars

\* C9 witness: the initial reload and a reload for a changed horizon, both
\* still in flight.
C9_Witness ==
    /\ Len(reqs) = 6
    /\ reqs[1].key.days # reqs[4].key.days
    /\ reqs[4].key = CurrentKey
    /\ \A i \in 1..Len(reqs) : reqs[i].status = "pending"

\* -------------------------------------------------------------------- C10
\* C10: once the forecast call for the current key (the latest one) has
\* succeeded and every earlier call has resolved, the error slot is null.
C10_ErrorClearedOnSuccess ==
    (/\ AllResolved
     /\ \E i \in OfKind("forecast") :
           IsLatest(i) /\ reqs[i].status = "ok" /\ reqs[i].key = CurrentKey)
        => error = NULL

\* -------------------------------------------------------------------- C11
\* C11: no failure of an item-list, forecast, cost-analysis or metrics call
\* (network failure, non-success status or malformed body) escapes: whatever
\* the calls answer, no render throws and the dashboard stays mounted.
C11_NoFailureEscapes == ~crashed

\* -------------------------------------------------------------------- C12
\* The tier the claim assigns to an error given in hundredths.
TierOf(mae) ==
    CASE mae <= 500 -> "Excellent"
      [] mae > 500 /\ mae <= 1000 -> "Good"
      [] mae > 1000 -> "Needs Improvement"

\* C12: the badge of every error value is the one tier the claim gives it,
\* with inclusive upper boundaries: mae <= 5 Excellent, 5 < mae <= 10 Good,
\* mae > 10 Needs Improvement; 5.0, 5.01, 10.0 and 10.01 fall as it names.
C12_BadgeTiers ==
    rendered # NULL =>
        /\ rendered.demandBadge.tier = TierOf(metrics.demand_metrics.mae)
        /\ rendered.priceBadge.tier = TierOf(metrics.price_metrics.mae)
        /\ \A b \in {rendered.demandBadge, rendered.priceBadge} :
              b.tier \in {"Excellent", "Good", "Needs Improvement"}
        /\ getAccuracyBadge(500).tier = "Excellent"
        /\ getAccuracyBadge(501).tier = "Good"
        /\ getAccuracyBadge(1000).tier = "Good"
        /\ getAccuracyBadge(1001).tier = "Needs Improvement"

\* C12 witness: a render has classified the boundary value 5.0 (as the demand
\* error) and the value 5.01 next to it (as the price error).
C12_Witness ==
    /\ rendered # NULL
    /\ metrics.demand_metrics.mae = 500
    /\ rendered.demandBadge.tier = "Excellent"
    /\ metrics.price_metrics.mae = 501
    /\ rendered.priceBadge.tier = "Good"

\* -------------------------------------------------------------------- C13
\* The three traces of a chart all run over sequence pts: trace t has the
\* points' dates as x and the values of field fields[t] as y, point by point.
TracesFollow(chart, pts, fields) ==
    /\ Len(chart.data) = 3
    /\ \A t \in 1..3 :
          /\ Len(chart.data[t].x) = Len(pts)
          /\ Len(chart.data[t].y) = Len(pts)
          /\ \A i \in 1..Len(pts) :
                /\ chart.data[t].x[i] = Get(pts[i], "date")
                /\ chart.data[t].y[i] = Get(pts[i], fields[t])

\* C13: for every point sequence and both measures, the center, upper and
\* lower sequences and the date axis have the input's length and order:
\* element i of each comes from point i.
C13_SeriesFollowPoints ==
    (rendered # NULL /\ "forecasts" \in DOMAIN forecastData) =>
        /\ TracesFollow(rendered.demand, forecastData.forecasts,
                        <<"demand_forecast", "demand_upper", "demand_lower">>)
        /\ TracesFollow(rendered.price, forecastData.forecasts,
                        <<"price_forecast", "price_upper", "price_lower">>)

\* C13 witness: charts built from three complete points that are not all
\* alike.
C13_Witness ==
    /\ rendered # NULL
    /\ "forecasts" \in DOMAIN forecastData
    /\ Len(forecastData.forecasts) = 3
    /\ \A i \in 1..3 : "demand_forecast" \in DOMAIN forecastData.forecasts[i]
    /\ forecastData.forecasts[1] # forecastData.forecasts[3]
    /\ rendered.demand.data[1].y = <<10, 20, 20>>

\* -------------------------------------------------------------------- C14
\* The input is one the claim calls degenerate: no point list, an empty one,
\* or a point without its measure fields.
Degenerate ==
    \/ "forecasts" \notin DOMAIN forecastData
    \/ forecastData.forecasts = <<>>
    \/ \E i \in 1..Len(forecastData.forecasts) :
          "demand_forecast" \notin DOMAIN forecastData.forecasts[i]
\* An empty series: three traces of length zero.
EmptySeries(chart) ==
    /\ chart # NULL
    /\ Len(chart.data) = 3
    /\ \A t \in 1..3 : chart.data[t].x = <<>> /\ chart.data[t].y = <<>>

\* C14: for an empty point sequence, and for a response without the point
\* list or the point fields, the builder returns an empty series for both
\* measures.
C14_DegenerateGivesEmptySeries ==
    (rendered # NULL /\ Degenerate) =>
        EmptySeries(rendered.demand) /\ EmptySeries(rendered.price)

\* ------------------------------------------- vocabulary of the load claims
\* The step is one load-worker cycle.
CycleStep == iterations' = iterations + 1
\* The value the cycle added to the error-rate counter: 0 a success, 1 not.
ErrorValueAdded == errorRate'.nonzero - errorRate.nonzero
\* The primary response's HTTP status is a success.
StatusIsSuccess(r) == r.status \in 200..299
\* The primary response's parsed body holds a non-empty forecast sequence.
HasNonEmptyForecasts(r) == r.body \in {"forecasts", "maeNull"}

\* -------------------------------------------------------------------- C15
\* C15: a cycle records its primary request as a success if and only if the
\* status is a success and the parsed body holds a non-empty forecast
\* sequence; neither the latency nor any other body field changes the value
\* added to the error-rate counter.
C15_SuccessIffStatusAndForecasts ==
    [][CycleStep =>
         (ErrorValueAdded = 0 <=>
            (StatusIsSuccess(response') /\ HasNonEmptyForecasts(response')))]_vars

\* -------------------------------------------------------------------- C16
\* A rate after a cycle whose only sample is the one given.
OneSample(before, after, v) == after = RateAdd(before, v)

\* C16 as stated: the probes' outcomes enter no error rate; both the rate the
\* errors threshold evaluates and the rate the summary reports move, in each
\* cycle, by the primary request's outcome alone.
C16_ErrorRatesFromPrimaryOnly ==
    [][CycleStep =>
         /\ errorRate'.total = errorRate.total + 1
         /\ OneSample(http_req_failed, http_req_failed',
                      FailedSample(response'))]_vars

\* C16, amended: the custom errors rate, which the errors threshold
\* evaluates, gets exactly one sample per cycle, decided by the primary
\* response's checks alone; the failed-request rate, which its own threshold
\* evaluates and the summary reports, gets one sample per HTTP request of the
\* cycle, probes included.
C16_ProbesOnlyInFailedRequestRate ==
    [][/\ CycleStep =>
            /\ OneSample(errorRate, errorRate',
                         IF Check(PrimaryChecks(response')) THEN 0 ELSE 1)
            /\ http_req_failed'.total - http_req_failed.total
                   = http_reqs' - http_reqs
            /\ http_reqs' - http_reqs \in 1..4
       /\ (summary = NULL /\ summary' # NULL) =>
            /\ summary'.thresholds.errors = RateBelowTenth(errorRate)
            /\ summary'.thresholds.http_req_failed
                   = RateBelowTenth(http_req_failed)
            /\ summary'.stdout.failed = PercentFixed2(http_req_failed)]_vars

\* A finished run in which every primary request succeeded and a probe got a
\* failure status: the errors rate is 0, the reported rate is not.
C16_Witness ==
    /\ summary # NULL
    /\ errorRate.total = iterations
    /\ iterations > 0
    /\ errorRate.nonzero = 0
    /\ http_req_failed.nonzero > 0
    /\ summary.stdout.failed > 0
    /\ summary.thresholds.errors
    /\ ~summary.thresholds.http_req_failed

\* -------------------------------------------------------------------- C17
\* The endpoint always answers status 200 with a non-empty forecast body.
AlwaysGoodForecasts ==
    /\ endpoint.statuses = {200}
    /\ endpoint.bodies = {"forecasts"}

\* C17: against an endpoint that always answers 200 with a non-empty
\* forecast body, whatever its latency and however many cycles are run, the
\* run ends with error rate 0 and the error-rate threshold passed.
C17_GoodEndpointErrorRateZero ==
    (AlwaysGoodForecasts /\ summary # NULL) =>
        /\ errorRate.nonzero = 0
        /\ summary.thresholds.errors

\* -------------------------------------------------------------------- C18
\* Every response of the endpoint takes a fixed 400 ms.
Fixed400 == endpoint.latencies = {400}

\* C18: against an endpoint whose every response takes 400 ms, a finished
\* run that made at least one request reports a p95 of at least 400 ms,
\* has the p95 < 300 ms threshold evaluated as failed, and reports FAILED.
C18_SlowEndpointFailsP95 ==
    (Fixed400 /\ summary # NULL /\ http_reqs >= 1) =>
        /\ summary.stdout.p95 >= 400 * 100
        /\ ~summary.thresholds.http_req_duration
        /\ summary.stdout.p95Line = "FAIL"
        /\ summary.stdout.verdict = "FAILED"

\* A finished run of several requests against such an endpoint, none failed.
C18_Witness ==
    /\ Fixed400
    /\ summary # NULL
    /\ http_reqs >= 3
    /\ http_req_failed.nonzero = 0
    /\ summary.stdout.p95 = 400 * 100
    /\ summary.stdout.verdict = "FAILED"

\* -------------------------------------------------------------------- C19
\* The run is over: its result has been finalized.
Finalized == summary # NULL
\* The step finalizes the run's result.
Finalizes == summary = NULL /\ summary' # NULL

\* C19: the stages are executed in the configured order, the run ends when,
\* and only when, the last one is exhausted, its result is finalized exactly
\* once and nothing runs afterwards; a threshold breach seen during the run
\* neither ends it nor stops the workers, it only shows in the final report.
C19_StagesInOrderFinalizedOnce ==
    /\ [](Finalized <=> stage = Len(Stages) + 1)
    /\ []((~Finalized /\ Breached) =>
             /\ ENABLED (StageEnds \/ RunEnds)
             /\ iterations < MaxIterations => ENABLED Iteration)
    /\ [][/\ stage' = stage \/ stage' = stage + 1
          /\ Finalizes =>
               /\ stage = Len(Stages)
               /\ summary'.stdout.duration = 1000 * Elapsed(Len(Stages))
               /\ summary'.thresholds = Thresholds
          /\ Finalized => UNCHANGED loadVars]_vars
    /\ <>Finalized

\* A finished run that went through all five stages although a threshold was
\* breached from its first iteration on.
C19_Witness ==
    /\ Finalized
    /\ stage = Len(Stages) + 1
    /\ iterations = MaxIterations
    /\ errorRate.nonzero = iterations
    /\ ~summary.thresholds.errors
    /\ summary.stdout.duration = 360 * 1000

\* -------------------------------------------------------------------- C20
\* C20: an optional call's failure hides only its own section: whenever
\* cost-analysis data is held, the cost-analysis cards are displayed, whether
\* or not metrics data is held.
C20_CostCardsShownWheneverHeld ==
    (~crashed /\ costAnalysis # NULL) => CostCardsShown

\* -------------------------------------------------------------------- C21
\* C21: no forecast, cost-analysis or metrics request is ever issued with an
\* empty item identifier; while no item is selected (the item list has not
\* loaded, is empty, or failed to load) no step issues a request, a change of
\* horizon or of model included, and the Update Forecast control is disabled.
C21_NoRequestWithoutItem ==
    /\ [](\A i \in 1..Len(reqs) :
             reqs[i].url.item # "" /\ reqs[i].key.item # "")
    /\ [](selectedItem = "" => UpdateForecastDisabled /\ reqs = <<>>)
    /\ [][(selectedItem = "" /\ selectedItem' = "") => reqs' = reqs]_vars

\* Loading the item list failed, and both the horizon and the model have
\* been changed since: nothing was requested.
C21_Witness ==
    /\ itemsReq = "fail"
    /\ selectedItem = ""
    /\ forecastDays # InitialForecastDays
    /\ modelType # InitialModelType
    /\ reqs = <<>>

\* -------------------------------------------------------------------- C22
\* C22: after any sequence of reloads, once every issued forecast call has
\* resolved, by success or by failure, the loading flag is false.
C22_LoadingFalseOnceAllResolved ==
    Pending("forecast") = {} => loading = FALSE

\* Three forecast calls or more were issued and have all resolved, the last
\* of them by failure and another by success.
C22_Witness ==
    /\ Cardinality(OfKind("forecast")) >= 3
    /\ Pending("forecast") = {}
    /\ \E i \in OfKind("forecast") : reqs[i].status = "ok"
    /\ \E i \in OfKind("forecast") : IsLatest(i) /\ reqs[i].status = "fail"
    /\ loading = FALSE

\* -------------------------------------------------------------------- C23
\* C23: the summary's verdict agrees with its threshold lines: it says
\* PASSED if and only if both the p95 < 300ms line and the error rate < 10%
\* line say PASS, for every record, one with its p95 or its failure rate
\* missing included.
C23_VerdictAgreesWithLines ==
    summary # NULL =>
        (summary.stdout.verdict = "PASSED" <=>
            (summary.stdout.p95Line = "PASS"
             /\ summary.stdout.errorLine = "PASS"))

====
